---- MODULE Spec2Model ----
(***************************************************************************)
(* askwiz: the answer-context and history engine of Wizard                 *)
(* (src/askwiz/wizard.py), with the validators of src/askwiz/validators.py.*)
(*                                                                         *)
(* Python values are tagged records: None, Str(<<chars>>), Bool(b).        *)
(* A text is a sequence of one-character strings, so that strip() and      *)
(* lower() are computed and not assumed.  Names (dictionary keys) are      *)
(* TLA+ strings; they are only concatenated and compared.                  *)
(*                                                                         *)
(* The tree of QuestionContext / QuestionData objects is a function from   *)
(* paths (sequences of names, <<>> the root AllQuestions) to nodes.  A     *)
(* context node carries keys, the insertion order of its dictionary.       *)
(***************************************************************************)
EXTENDS Integers, Sequences, FiniteSets, TLC

VARIABLES
    questions,   \* Wizard.__questions : the tree under AllQuestions
    q_context,   \* Wizard.__q_context : stack of open context names
    path,        \* Wizard.__path      : <<>> (None) or <<file name>>
    disk,        \* the history file   : [exists, doc]
    frame,       \* the ask() call blocked in its presenter loop, or NoCall
    ret,         \* outcome of the last finished call
    ops,         \* calls made on this Wizard instance (counted by SpecHist)
    runs         \* Wizard instances constructed so far

vars == <<questions, q_context, path, disk, frame, ret, ops, runs>>

(***************************** bounds **************************************)
MaxNodes == 4      \* objects under the root, specification Spec
MaxCtxNodes == 5   \* objects under the root, specification SpecCtx
MaxYnNodes == 1    \* objects under the root, specification SpecYN
MaxHistOps == 3    \* calls per Wizard instance, specification SpecHist
MaxClashNodes == 4 \* objects under the root, specification SpecClash
MaxLoopNodes == 1  \* objects under the root, specification SpecLoop
MaxAutoAsks == 3   \* unnamed asks per Wizard instance, specification SpecAuto
MaxRuns == 2       \* Wizard instances (process runs) over one history file
MaxAttempts == 2   \* presenter calls within one ask()

(***************************** values **************************************)
None == [none |-> TRUE]
Str(s) == [str |-> s]
Bool(b) == [bool |-> b]

IsStr(v) == "str" \in DOMAIN v

\* Python truthiness, as used by "if not input_answ"
Truthy(v) ==
    IF v = None THEN FALSE
    ELSE IF IsStr(v) THEN Len(v.str) > 0
    ELSE v.bool

UpperCase == <<"A","B","C","D","E","F","G","H","I","J","K","L","M",
               "N","O","P","Q","R","S","T","U","V","W","X","Y","Z">>
LowerCase == <<"a","b","c","d","e","f","g","h","i","j","k","l","m",
               "n","o","p","q","r","s","t","u","v","w","x","y","z">>

LowerChar(c) ==
    IF \E i \in 1..Len(UpperCase) : UpperCase[i] = c
    THEN LowerCase[CHOOSE i \in 1..Len(UpperCase) : UpperCase[i] = c]
    ELSE c

\* str.lower()
Lower(s) == [i \in 1..Len(s) |-> LowerChar(s[i])]

IsSpace(c) == c \in {" ", "\t", "\n"}

RECURSIVE LStrip(_)
LStrip(s) == IF s # <<>> /\ IsSpace(Head(s)) THEN LStrip(Tail(s)) ELSE s

RECURSIVE RStrip(_)
RStrip(s) ==
    IF s # <<>> /\ IsSpace(s[Len(s)]) THEN RStrip(SubSeq(s, 1, Len(s) - 1)) ELSE s

\* str.strip()
Strip(s) == RStrip(LStrip(s))

(***************************** validators **********************************)
Accept(v) == [ok |-> TRUE, value |-> v]
Reject(exc, msg) == [ok |-> FALSE, exc |-> exc, msg |-> msg]

YesWords == {<<"y">>, <<"y","e","s">>}
NoWords == {<<"n">>, <<"n","o">>}

\* faulty variant: the comparison forgets .lower()
YesNoCaseSensitive(value) ==
    IF value = None THEN Accept(None)
    ELSE IF value.str \in YesWords THEN Accept(Bool(TRUE))
    ELSE IF value.str \in NoWords THEN Accept(Bool(FALSE))
    ELSE Reject("ValidationFailed", "Answer must be yes or no")

\* validators.py YesNoAnswerValidator.__call__
YesNoAnswerValidator(value) ==
    IF value = None THEN Accept(None)
    ELSE IF Lower(value.str) \in YesWords THEN Accept(Bool(TRUE))
    ELSE IF Lower(value.str) \in NoWords THEN Accept(Bool(FALSE))
    ELSE Reject("ValidationFailed", "Answer must be yes or no")

DigitChars == <<"0","1","2","3","4","5","6","7","8","9">>

IsDigit(c) == \E k \in 1..Len(DigitChars) : DigitChars[k] = c
DigitVal(c) == (CHOOSE k \in 1..Len(DigitChars) : DigitChars[k] = c) - 1

\* the value of a digit string in which single underscores may separate digits
RECURSIVE DigitsVal(_, _)
DigitsVal(s, acc) ==
    IF s = <<>> THEN acc
    ELSE IF Head(s) = "_" THEN DigitsVal(Tail(s), acc)
    ELSE DigitsVal(Tail(s), 10 * acc + DigitVal(Head(s)))

\* digits, with single underscores allowed between digits
IsDigits(u) ==
    /\ u # <<>>
    /\ IsDigit(u[1]) /\ IsDigit(u[Len(u)])
    /\ \A k \in 1..Len(u) :
          \/ IsDigit(u[k])
          \/ u[k] = "_" /\ k > 1 /\ u[k - 1] # "_"

\* int() of a text without surrounding whitespace: an optional sign, then
\* digits
IntOfStripped(b) ==
    IF b # <<>> /\ b[1] = "-"
    THEN (IF IsDigits(Tail(b)) THEN [ok |-> TRUE, n |-> 0 - DigitsVal(Tail(b), 0)]
          ELSE [ok |-> FALSE])
    ELSE IF b # <<>> /\ b[1] = "+"
    THEN (IF IsDigits(Tail(b)) THEN [ok |-> TRUE, n |-> DigitsVal(Tail(b), 0)]
          ELSE [ok |-> FALSE])
    ELSE IF IsDigits(b) THEN [ok |-> TRUE, n |-> DigitsVal(b, 0)]
    ELSE [ok |-> FALSE]

\* int(str): surrounding whitespace is dropped; anything that is no number
\* is a ValueError
IntOf(s) == IntOfStripped(Strip(s))

\* OptionsValidators.add_option: one (code, desc) pair of self.options
Option(code, desc) == [code |-> code, desc |-> desc]

\* ask_choose line 337: a list of values gives the pairs (v, v)
ListOptions(values) == [k \in 1..Len(values) |-> Option(Str(values[k]), values[k])]

\* OptionsValidators.__call__, the for loop from the i-th option on
RECURSIVE OptionsFrom(_, _, _)
OptionsFrom(options, value, i) ==
    IF i > Len(options) THEN Reject("NotAValidOption", "Not an option")
    ELSE IF Strip(value.str) = options[i].desc THEN Accept(options[i].code)
    ELSE IF IntOf(value.str) = [ok |-> TRUE, n |-> i] THEN Accept(options[i].code)
    ELSE OptionsFrom(options, value, i + 1)

\* validators.py OptionsValidators.__call__
OptionsValidators(options, value) ==
    IF value = None THEN Accept(None) ELSE OptionsFrom(options, value, 1)

\* the option lists given to OptionsValidators, by the name the model gives
\* the validator built from them
OptionLists ==
    [colours |-> ListOptions(<<<<"R","e","d">>, <<"G","r","e","e","n">>,
                               <<"B","l","u","e">>>>),
     mixed |-> ListOptions(<<<<"x">>, <<"1">>>>),
     swapped |-> ListOptions(<<<<"2">>, <<"1">>>>)]

\* the validator chain of one ask(): "none" is the empty list,
\* "yn" is [YesNoAnswerValidator()] as built by add_validator in ask_yn,
\* a name of OptionLists is [OptionsValidators()] with those options added
RunValidators(kind, value) ==
    IF kind = "yn" THEN YesNoAnswerValidator(value)
    ELSE IF kind \in DOMAIN OptionLists THEN OptionsValidators(OptionLists[kind], value)
    ELSE Accept(value)

(***************************** the tree *************************************)
\* QuestionData.__init__
QuestionData(prior) ==
    [type |-> "question", prior_answer |-> prior, answer |-> None, asked |-> FALSE]

\* QuestionContext.__init__
QuestionContext == [type |-> "context", keys |-> <<>>]

\* AllQuestions(): the empty root
AllQuestions == (<<>> :> QuestionContext)

IsPrefix(p, q) == Len(p) <= Len(q) /\ SubSeq(q, 1, Len(p)) = p

\* faulty variant: only questions count as taken names
ContainsQuestion(t, c, name) ==
    Append(c, name) \in DOMAIN t /\ t[Append(c, name)].type = "question"

\* QuestionContext.__contains__ on the context at path c
Contains(t, c, name) == Append(c, name) \in DOMAIN t

\* QuestionContext.__setitem__ when the name is new: dict insert, at the end
SetItem(t, c, name, obj) ==
    [p \in DOMAIN t \cup {Append(c, name)} |->
        IF p = Append(c, name) THEN obj
        ELSE IF p = c THEN [t[c] EXCEPT !.keys = Append(@, name)]
        ELSE t[p]]

\* self.__questions[name] = obj on an existing key: the old object, and all
\* that hung under it, is dropped; the key keeps its place
Rebind(t, c, name, obj) ==
    [p \in {q \in DOMAIN t : ~ (IsPrefix(Append(c, name), q) /\ q # Append(c, name))} |->
        IF p = Append(c, name) THEN obj ELSE t[p]]

\* Wizard._cur_context: walk the stack from the root.  "KeyError" when a name
\* is missing, "TypeError" when the walk subscripts a QuestionData.
RECURSIVE WalkErr(_, _, _)
WalkErr(t, stack, i) ==
    IF i > Len(stack) THEN "none"
    ELSE IF t[SubSeq(stack, 1, i - 1)].type # "context" THEN "TypeError"
    ELSE IF SubSeq(stack, 1, i) \notin DOMAIN t THEN "KeyError"
    ELSE WalkErr(t, stack, i + 1)

CurErr(t, stack) == WalkErr(t, stack, 1)

\* faulty variant: the walk forgets the stack and stays at the root
cur_context_root(stack) == <<>>

\* Wizard._cur_context, the object the walk returns, as its path
cur_context(stack) == stack

\* "name in self._cur_context" raises TypeError when the walk ended on a
\* QuestionData, which has no __contains__
InErr(t, stack) ==
    IF CurErr(t, stack) # "none" THEN CurErr(t, stack)
    ELSE IF t[stack].type # "context" THEN "TypeError"
    ELSE "none"

\* faulty variant: the derived name is used as it is, asked or not
UniqueFromNoSuffix(t, c, orig, i) == [err |-> "none", name |-> orig]

\* Wizard._make_unique_name, the while loop from counter i on
RECURSIVE UniqueFrom(_, _, _, _)
UniqueFrom(t, c, orig, i) ==
    LET name == IF i = 0 THEN orig ELSE orig \o "." \o ToString(i)
    IN  IF ~ Contains(t, c, name) THEN [err |-> "none", name |-> name]
        ELSE IF t[Append(c, name)].type # "question"
             THEN [err |-> "AttributeError", name |-> name]   \* no .asked
        ELSE IF t[Append(c, name)].asked THEN UniqueFrom(t, c, orig, i + 1)
        ELSE [err |-> "none", name |-> name]

\* Wizard._make_unique_name: a KeyError of the walk is swallowed
make_unique_name(t, stack, orig) ==
    IF CurErr(t, stack) = "KeyError" THEN [err |-> "none", name |-> orig]
    ELSE IF InErr(t, stack) # "none" THEN [err |-> InErr(t, stack), name |-> orig]
    ELSE UniqueFrom(t, cur_context(stack), orig, 0)

AutoPrefix == "__auto__."

\* faulty variant: the asked flag is not consulted
AlreadyAskedNever(qdata) == FALSE

\* Wizard.ask lines 209-210: "if qdata.asked: raise KeyError"
AlreadyAsked(qdata) == qdata.asked

\* the caller's default is kept whatever the history holds
PriorDefaultIgnored(qdata, default) == default

\* Wizard.ask: a prior answer that is not None replaces the caller's default
PriorDefault(qdata, default) ==
    IF qdata.prior_answer # None THEN qdata.prior_answer ELSE default

\* Wizard.ask lines 195-214: the storage name, the QuestionData and the
\* default.  nameOpt is <<>> for name=None and <<n>> for name=n.
\* err is the exception raised before the presenter loop, or "none".
AskResolve(t, stack, question, default, nameOpt) ==
    LET nm == IF nameOpt = <<>>
              THEN make_unique_name(t, stack, AutoPrefix \o question)
              ELSE [err |-> "none", name |-> nameOpt[1]]
        cur == cur_context(stack)
        at == Append(cur, nm.name)
        fail(e) == [err |-> e, t |-> t, name |-> nm.name, at |-> at,
                    found |-> FALSE, default |-> default]
    IN  IF nm.err # "none" THEN fail(nm.err)
        ELSE IF InErr(t, stack) # "none" THEN fail(InErr(t, stack))
        ELSE IF ~ Contains(t, cur, nm.name)
             THEN [err |-> "none",
                   t |-> SetItem(t, cur, nm.name, QuestionData(None)),
                   name |-> nm.name, at |-> at, found |-> FALSE,
                   default |-> default]
        ELSE IF t[at].type # "question" THEN fail("AttributeError")
        ELSE IF AlreadyAsked(t[at]) THEN fail("KeyError")
        ELSE [err |-> "none", t |-> t, name |-> nm.name, at |-> at,
              found |-> TRUE,
              default |-> PriorDefault(t[at], default)]

(***************************** history **************************************)
HistPath == "answers.json"

NoFile == [exists |-> FALSE]
File(doc) == [exists |-> TRUE, doc |-> doc]

\* faulty variant: a record that was not asked is written without its answer
save_data_asked(t) ==
    [p \in DOMAIN t |->
        IF t[p].type = "context"
        THEN [type |-> "context", keys |-> t[p].keys]
        ELSE [type |-> "question",
              answer |-> IF t[p].asked THEN t[p].prior_answer ELSE None]]

\* faulty variant: the contexts are written without what they hold
save_data_shallow(t) ==
    [p \in {q \in DOMAIN t : Len(q) <= 1} |->
        IF t[p].type = "context"
        THEN [type |-> "context", keys |-> IF p = <<>> THEN t[p].keys ELSE <<>>]
        ELSE [type |-> "question", answer |-> t[p].prior_answer]]

\* QuestionContext.save_data / QuestionData.save_data, node by node
save_data(t) ==
    [p \in DOMAIN t |->
        IF t[p].type = "context"
        THEN [type |-> "context", keys |-> t[p].keys]
        ELSE [type |-> "question", answer |-> t[p].prior_answer]]

\* Wizard.save with the path already chosen: <<>> is None
SaveTo(pathOpt, t, d) == IF pathOpt = <<>> THEN d ELSE File(save_data(t))

\* QuestionContext.merge_saved_data of context c, from the i-th key on.
\* err is "AttributeError" when a saved context meets a QuestionData.
RECURSIVE MergeFrom(_, _, _, _)
MergeFrom(t, doc, c, i) ==
    IF i > Len(doc[c].keys) THEN [t |-> t, err |-> "none"]
    ELSE
      LET name == doc[c].keys[i]
          p == Append(c, name)
          obj == doc[p]
      IN  IF obj.type = "question"
          THEN MergeFrom(IF p \in DOMAIN t
                         THEN Rebind(t, c, name, QuestionData(obj.answer))
                         ELSE SetItem(t, c, name, QuestionData(obj.answer)),
                         doc, c, i + 1)
          ELSE
            LET t1 == IF p \in DOMAIN t THEN t
                      ELSE SetItem(t, c, name, QuestionContext)
            IN  IF t1[p].type # "context"
                THEN [t |-> t1, err |-> "AttributeError"]
                ELSE LET r == MergeFrom(t1, doc, p, 1)
                     IN  IF r.err # "none" THEN r
                         ELSE MergeFrom(r.t, doc, c, i + 1)

\* QuestionContext.merge_saved_data on the root
merge_saved_data(t, doc) == MergeFrom(t, doc, <<>>, 1)

\* Wizard.load_prior_answers after the file was opened and parsed
LoadFrom(t, d) == merge_saved_data(t, d.doc)

(***************************** answer lookup ********************************)
\* QuestionContextAnswers.__getitem__, chained: wiz[n1][n2]...
\* A context yields a proxy over its own dictionary; a QuestionData yields
\* its .answer, which cannot be indexed by a name.
RECURSIVE Index(_, _, _)
Index(t, c, names) ==
    LET p == Append(c, Head(names))
    IN  IF p \notin DOMAIN t THEN [status |-> "raise", exc |-> "KeyError"]
        ELSE IF t[p].type = "question"
             THEN IF Tail(names) = <<>>
                  THEN [status |-> "return", value |-> t[p].answer]
                  ELSE [status |-> "raise", exc |-> "TypeError"]
        ELSE IF Tail(names) = <<>>
             THEN [status |-> "return", value |-> [proxy |-> p]]
        ELSE Index(t, p, Tail(names))

\* Wizard.__getitem__ followed by the further subscripts
GetItem(t, names) == Index(t, <<>>, names)

(***************************** calls ****************************************)
NoCall == [op |-> "none"]
NoRet == [op |-> "none"]

Raise(op, args, exc) == [op |-> op, args |-> args, status |-> "raise", exc |-> exc]
Return(op, args, value) ==
    [op |-> op, args |-> args, status |-> "return", value |-> value]

YesText == <<"y","e","s">>
NoText == <<"n","o">>

\* Wizard.ask up to the first presenter call, for the public entry point op
\* called with args
AskStart(op, args, question, default, required, nameOpt, validators) ==
    LET r == AskResolve(questions, q_context, question, default, nameOpt)
    IN  IF r.err # "none"
        THEN /\ questions' = questions
             /\ frame' = NoCall
             /\ ret' = Raise(op, args, r.err)
        ELSE /\ questions' = r.t
             /\ frame' = [op |-> op, args |-> args, name |-> r.name,
                          autonamed |-> (nameOpt = <<>>), at |-> r.at,
                          found |-> r.found,
                          default |-> r.default, required |-> required,
                          validators |-> validators, attempts |-> 0,
                          input |-> None, told |-> ""]
             /\ ret' = NoRet

\* Wizard.ask
ask(q, d, r, n) ==
    /\ AskStart("ask", [question |-> q, default |-> d, required |-> r, name |-> n],
                q, d, r, n, "none")
    /\ UNCHANGED <<q_context, path, disk, runs>>

\* Wizard.ask called with validators=[v], v named by validators
ask_validated(q, d, r, n, validators) ==
    /\ AskStart("ask", [question |-> q, default |-> d, required |-> r, name |-> n],
                q, d, r, n, validators)
    /\ UNCHANGED <<q_context, path, disk, runs>>

\* faulty variant: every given default becomes 'yes'
YnDefaultYes(d) == IF d # None THEN Str(YesText) ELSE None

\* Wizard.ask_yn lines 295-299: a given default becomes 'yes' or 'no'
YnDefault(d) ==
    IF d # None THEN (IF Truthy(d) THEN Str(YesText) ELSE Str(NoText))
    ELSE None

\* Wizard.ask_yn: a given default also lifts required (line 300)
ask_yn(q, d, r, n) ==
    /\ AskStart("ask_yn", [question |-> q, default |-> d, required |-> r, name |-> n],
                q, YnDefault(d), IF d # None THEN FALSE ELSE r, n, "yn")
    /\ UNCHANGED <<q_context, path, disk, runs>>

\* Wizard.ask_choose: without a presenter ConsoleOptionPresenter() lacks its
\* prompt argument; with one, ask() is called with q_context=, a keyword it
\* does not take.  Both are a TypeError before anything is asked.
ask_choose(q, options, n, withPresenter) ==
    /\ ret' = Raise("ask_choose",
                    [question |-> q, options |-> options, name |-> n,
                     presenter |-> withPresenter],
                    "TypeError")
    /\ UNCHANGED <<questions, q_context, path, disk, frame, runs>>

\* faulty variant: an answer is never demanded
AnswerRequiredNever(input_answ, required) == FALSE

\* Wizard.ask lines 246-248: "# Check required"
AnswerRequired(input_answ, required) == ~ Truthy(input_answ) /\ required

\* faulty variant: the raw input is stored as the answer as well
CommitRaw(t, at, raw, value, autonamed) ==
    [t EXCEPT ![at] = [@ EXCEPT !.prior_answer = raw,
                                !.answer = IF autonamed THEN @ ELSE raw,
                                !.asked = TRUE]]

\* Wizard.ask lines 265-269: "# save answer"
Commit(t, at, raw, value, autonamed) ==
    [t EXCEPT ![at] = [@ EXCEPT !.prior_answer = raw,
                                !.answer = IF autonamed THEN @ ELSE value,
                                !.asked = TRUE]]

\* One turn of the presenter loop of Wizard.ask (lines 233-273): the presenter
\* yields inp; a rejected answer informs the user and loops; an accepted one is
\* committed, saved, and returned.  set_path goes on to load when the answer
\* to its prompt is true.
present(inp) ==
    /\ frame # NoCall
    /\ UNCHANGED <<ops, runs>>
    /\ LET a0 == IF inp = None \/ Len(Strip(inp.str)) = 0 THEN None ELSE inp
           a1 == IF ~ Truthy(a0) THEN frame.default ELSE a0
           needed == AnswerRequired(a1, frame.required)
           a2 == IF ~ Truthy(a1) THEN frame.default ELSE a1
           v == RunValidators(frame.validators, a2)
           msg == IF needed THEN "Answer required"
                  ELSE "Problem with answer: " \o v.msg
           t1 == Commit(questions, frame.at, a2, v.value, frame.autonamed)
           d1 == SaveTo(path, t1, disk)
           asked == [op |-> frame.op, args |-> frame.args, status |-> "return",
                     value |-> v.value, name |-> frame.name,
                     autonamed |-> frame.autonamed, at |-> frame.at,
                     default |-> frame.default, raw |-> a2, input |-> inp,
                     attempts |-> frame.attempts + 1, told |-> frame.told]
       IN  IF needed \/ ~ v.ok
           THEN /\ frame.attempts + 1 < MaxAttempts
                /\ frame' = [frame EXCEPT !.attempts = @ + 1, !.input = inp,
                                          !.told = msg]
                /\ UNCHANGED <<questions, q_context, path, disk, ret>>
           ELSE /\ frame' = NoCall
                /\ disk' = d1
                /\ IF frame.op = "set_path" /\ Truthy(v.value)
                   THEN LET m == LoadFrom(t1, d1)
                        IN  /\ questions' = m.t
                            /\ ret' = IF m.err = "none" THEN asked
                                      ELSE Raise("set_path", frame.args, m.err)
                   ELSE /\ questions' = t1
                        /\ ret' = asked
                /\ UNCHANGED <<q_context, path>>

\* Wizard._open_q_context
open_q_context(name) ==
    LET e == InErr(questions, q_context)
        args == [name |-> name]
    IN  /\ IF e # "none"
           THEN /\ ret' = Raise("open", args, e)
                /\ UNCHANGED <<questions, q_context>>
           ELSE IF Contains(questions, cur_context(q_context), name)
           THEN /\ ret' = Raise("open", args, "KeyError")
                /\ UNCHANGED <<questions, q_context>>
           ELSE /\ questions' = SetItem(questions, cur_context(q_context), name,
                                        QuestionContext)
                /\ q_context' = Append(q_context, name)
                /\ ret' = Return("open", args, None)
        /\ UNCHANGED <<path, disk, frame, runs>>

\* Wizard._close_q_context; nameOpt is <<>> for context_name=None
close_q_context(nameOpt) ==
    LET args == [name |-> nameOpt]
    IN  /\ IF nameOpt # <<>> /\ (Len(q_context) = 0
                                 \/ q_context[Len(q_context)] # nameOpt[1])
           THEN /\ ret' = Raise("close", args, "ValueError")
                /\ UNCHANGED q_context
           ELSE IF Len(q_context) = 0
           THEN /\ ret' = Raise("close", args, "IndexError")   \* [].pop()
                /\ UNCHANGED q_context
           ELSE /\ q_context' = SubSeq(q_context, 1, Len(q_context) - 1)
                /\ ret' = Return("close", args, None)
        /\ UNCHANGED <<questions, path, disk, frame, runs>>

LoadPrompt == "Load prior answers from " \o HistPath \o "?"

\* Wizard.set_path
set_path(load_if_exists, prompt_if_exists) ==
    LET args == [load_if_exists |-> load_if_exists,
                 prompt_if_exists |-> prompt_if_exists]
    IN  /\ path' = <<HistPath>>
        /\ IF disk.exists /\ load_if_exists
           THEN LET m == LoadFrom(questions, disk)
                IN  /\ questions' = m.t
                    /\ ret' = IF m.err = "none" THEN Return("set_path", args, None)
                              ELSE Raise("set_path", args, m.err)
                    /\ frame' = frame
           ELSE IF disk.exists /\ prompt_if_exists
           THEN AskStart("set_path", args, LoadPrompt, None, TRUE, <<>>, "yn")
           ELSE /\ ret' = Return("set_path", args, None)
                /\ UNCHANGED <<questions, frame>>
        /\ UNCHANGED <<q_context, disk, runs>>

\* Wizard.load_prior_answers(path)
load_prior_answers ==
    /\ IF ~ disk.exists
       THEN /\ ret' = Raise("load", <<>>, "FileNotFoundError")
            /\ UNCHANGED questions
       ELSE LET m == LoadFrom(questions, disk)
            IN  /\ questions' = m.t
                /\ ret' = IF m.err = "none" THEN Return("load", <<>>, None)
                          ELSE Raise("load", <<>>, m.err)
    /\ UNCHANGED <<q_context, path, disk, frame, runs>>

\* Wizard.save(path); pathOpt is <<>> for path=None
save(pathOpt) ==
    /\ disk' = SaveTo(IF pathOpt = <<>> THEN path ELSE pathOpt, questions, disk)
    /\ ret' = Return("save", [path |-> pathOpt], None)
    /\ UNCHANGED <<questions, q_context, path, frame, runs>>

\* Wizard.__init__ without saveto, in a new process: the file stays
NewWizard ==
    /\ frame = NoCall
    /\ runs < MaxRuns
    /\ questions' = AllQuestions
    /\ q_context' = <<>>
    /\ path' = <<>>
    /\ frame' = NoCall
    /\ ret' = NoRet
    /\ ops' = 0
    /\ runs' = runs + 1
    /\ UNCHANGED disk

Init ==
    /\ questions = AllQuestions
    /\ q_context = <<>>
    /\ path = <<>>
    /\ disk = NoFile
    /\ frame = NoCall
    /\ ret = NoRet
    /\ ops = 0
    /\ runs = 1

\* a call is made when none is in progress
Idle == frame = NoCall

\* the tree keeps at most b objects under the root
Within(b) == Cardinality(DOMAIN questions') <= b + 1 /\ UNCHANGED ops

\* the instance makes at most b calls
Budget(b) == ops < b /\ ops' = ops + 1

OptArgs(S) == {<<>>} \cup {<<n>> : n \in S}

A == <<"a">>
B == <<"b", " ">>
Yes == <<"Y","e","s">>

(***************************** Spec: names in one session *******************)
\* one explicit name and the unnamed question "q", one context name
Next ==
    \/ \E n \in OptArgs({"A"}) :
          Idle /\ ask("q", None, TRUE, n) /\ Within(MaxNodes)
    \/ \E n \in OptArgs({"A"}) :
          Idle /\ ask_yn("q", None, TRUE, n) /\ Within(MaxNodes)
    \/ Idle /\ open_q_context("c1") /\ Within(MaxNodes)
    \/ \E c \in OptArgs({"c1"}) : Idle /\ close_q_context(c) /\ Within(MaxNodes)
    \/ \E i \in {Str(A), Str(B), Str(Yes)} : present(i)

Spec == Init /\ [][Next]_vars

(***************************** SpecCtx: one name in many contexts ***********)
NextCtx ==
    \/ Idle /\ ask("q", None, TRUE, <<"A">>) /\ Within(MaxCtxNodes)
    \/ Idle /\ ask_yn("q", None, TRUE, <<"A">>) /\ Within(MaxCtxNodes)
    \/ \E c \in {"c1", "c2"} : Idle /\ open_q_context(c) /\ Within(MaxCtxNodes)
    \/ \E c \in OptArgs({"c1", "c2"}) :
          Idle /\ close_q_context(c) /\ Within(MaxCtxNodes)
    \/ \E i \in {Str(A), Str(Yes)} : present(i)

SpecCtx == Init /\ [][NextCtx]_vars

(***************************** SpecYN: yes/no and choice questions **********)
\* every spelling of a word in upper and lower case letters
UpperOf(c) ==
    IF \E k \in 1..Len(LowerCase) : LowerCase[k] = c
    THEN UpperCase[CHOOSE k \in 1..Len(LowerCase) : LowerCase[k] = c]
    ELSE c

Spellings(w) ==
    {s \in [1..Len(w) -> {w[k] : k \in 1..Len(w)} \cup {UpperOf(w[k]) : k \in 1..Len(w)}] :
        \A k \in 1..Len(w) : s[k] \in {w[k], UpperOf(w[k])}}

YesSpellings == Spellings(<<"y">>) \cup Spellings(<<"y","e","s">>)
NoSpellings == Spellings(<<"n">>) \cup Spellings(<<"n","o">>)
OtherTexts == {<<"m","a","y","b","e">>, <<"y","e","s","s">>, <<"0">>, <<" ","y">>,
               <<"n","o"," ">>, <<"y","e","s","n","o">>}
BlankTexts == {<<>>, <<" ">>, <<" ","\t">>}

YnInputs ==
    {None} \cup {Str(s) : s \in YesSpellings \cup NoSpellings \cup OtherTexts \cup BlankTexts}

Red == <<"R","e","d">>
Green == <<"G","r","e","e","n">>
Blue == <<"B","l","u","e">>
Purple == <<"P","u","r","p","l","e">>
Colours == <<Red, Green, Blue>>

\* what a test presenter handed to ask_choose would yield; <<>> is
\* presenter=None
ChoicePresenters == OptArgs({<<"2">>, Green, <<"5">>, Purple})

NextYN ==
    \/ \E d \in {None, Bool(TRUE), Bool(FALSE)}, r \in BOOLEAN, n \in OptArgs({"A"}) :
          Idle /\ ask_yn("q", d, r, n) /\ Within(MaxYnNodes)
    \/ \E n \in OptArgs({"A"}), p \in ChoicePresenters :
          Idle /\ ask_choose("Colour?", Colours, n, p) /\ Within(MaxYnNodes)
    \/ \E i \in YnInputs : present(i)

SpecYN == Init /\ [][NextYN]_vars

(***************************** SpecHist: runs over one history file *********)
D == <<"d">>

NextHist ==
    \/ \E d \in {None, Str(D)}, r \in BOOLEAN :
          Idle /\ Budget(MaxHistOps) /\ ask("q", d, r, <<"A">>)
    \/ Idle /\ Budget(MaxHistOps) /\ open_q_context("c1")
    \/ Idle /\ Budget(MaxHistOps) /\ close_q_context(<<>>)
    \/ \E l \in BOOLEAN, p \in BOOLEAN : Idle /\ Budget(MaxHistOps) /\ set_path(l, p)
    \/ Idle /\ Budget(MaxHistOps) /\ load_prior_answers
    \/ \E f \in OptArgs({HistPath}) : Idle /\ Budget(MaxHistOps) /\ save(f)
    \/ NewWizard
    \/ \E i \in {Str(<<>>), Str(A), Str(Yes)} : present(i)

SpecHist == Init /\ [][NextHist]_vars

(***************************** SpecClash: questions and contexts share names *)
ClashNames == {"A", "c1"}

NextClash ==
    \/ \E n \in ClashNames :
          Idle /\ ask("q", None, TRUE, <<n>>) /\ Within(MaxClashNodes)
    \/ \E c \in ClashNames : Idle /\ open_q_context(c) /\ Within(MaxClashNodes)
    \/ Idle /\ close_q_context(<<>>) /\ Within(MaxClashNodes)
    \/ present(Str(A))

SpecClash == Init /\ [][NextClash]_vars

(***************************** SpecLoop: validators and the retry loop *******)
LoopInputs ==
    {None} \cup
    {Str(s) : s \in {<<>>, <<" ">>, <<"x">>, <<"1">>, <<"2">>, <<" ","2"," ">>,
                     <<"5">>, <<"0">>, <<"G","r","e","e","n">>,
                     <<"g","r","e","e","n">>, <<"P","u","r","p","l","e">>,
                     <<"y","e","s">>}}

NextLoop ==
    \/ \E r \in BOOLEAN, n \in OptArgs({"A"}),
          v \in {"none"} \cup DOMAIN OptionLists :
          Idle /\ ask_validated("q", None, r, n, v) /\ Within(MaxLoopNodes)
    \/ \E d \in {None, Bool(TRUE)}, r \in BOOLEAN :
          Idle /\ ask_yn("q", d, r, <<"A">>) /\ Within(MaxLoopNodes)
    \/ \E i \in LoopInputs : present(i)

SpecLoop == Init /\ [][NextLoop]_vars

\* the presenter yields an input that the ask in progress accepts
Accepted == \E i \in LoopInputs : present(i) /\ frame' = NoCall

\* the presenter does not withhold an acceptable input for ever
SpecLoopFair == SpecLoop /\ WF_vars(Accepted)

(***************************** SpecReload: a history name met as a context ***)
\* the name A is a question in one run and may be a context in the next
NextReload ==
    \/ Idle /\ Budget(MaxHistOps) /\ ask("q", None, TRUE, <<"A">>)
    \/ Idle /\ Budget(MaxHistOps) /\ open_q_context("A")
    \/ Idle /\ Budget(MaxHistOps) /\ close_q_context(<<>>)
    \/ Idle /\ Budget(MaxHistOps) /\ save(<<HistPath>>)
    \/ Idle /\ Budget(MaxHistOps) /\ load_prior_answers
    \/ NewWizard
    \/ present(Str(A))

SpecReload == Init /\ [][NextReload]_vars

(***************************** SpecAuto: unnamed asks over a history *********)
\* every counted call is an unnamed ask of "q" at the root, so that ops is
\* the number of such asks made by this Wizard instance
NextAuto ==
    \/ \E d \in {None, Str(D)} :
          Idle /\ Budget(MaxAutoAsks) /\ ask("q", d, TRUE, <<>>)
    \/ Idle /\ set_path(TRUE, FALSE) /\ UNCHANGED ops
    \/ Idle /\ load_prior_answers /\ UNCHANGED ops
    \/ NewWizard
    \/ \E i \in {Str(<<>>), Str(A), Str(B)} : present(i)

SpecAuto == Init /\ [][NextAuto]_vars

(***************************** properties ***********************************)
AskOps == {"ask", "ask_yn"}

\* the last call was an ask that returned
AskReturned == ret.op \in AskOps /\ ret.status = "return"

\* the last call was an ask that raised
AskRaised == ret.op \in AskOps /\ ret.status = "raise"

\* this step is a call of ask / ask_yn with name=n
AskCallOf(n) ==
    /\ frame = NoCall
    /\ \/ frame' # NoCall /\ frame'.op \in AskOps /\ frame'.args.name = <<n>>
       \/ frame' = NoCall /\ ret'.op \in AskOps /\ ret'.status = "raise"
                          /\ ret'.args.name = <<n>>

\* this step is the presenter turn on which the ask in progress returns
Commits == frame # NoCall /\ frame' = NoCall

IsQuestion(t, p) == p \in DOMAIN t /\ t[p].type = "question"
IsAsked(t, p) == IsQuestion(t, p) /\ t[p].asked
Got(v) == [status |-> "return", value |-> v]

\* C1: an explicitly named question asked once at the root: wiz[name] is the
\* validated value that ask returned, when it returns and in every later
\* state reached by other asks and by context entries and exits.
C1_AtReturn ==
    (AskReturned /\ ~ ret.autonamed /\ Len(ret.at) = 1)
        => GetItem(questions, ret.at) = Got(ret.value)

C1_Kept ==
    \A p \in DOMAIN questions :
        (Len(p) = 1 /\ IsAsked(questions, p))
            => GetItem(questions', p) = GetItem(questions, p)

C1_GetReturnsAskedValue == [] C1_AtReturn /\ [][C1_Kept]_vars

\* A asked first with ask_yn (validated TRUE differs from the raw "Yes"), then
\* an unnamed ask, then c1 entered, A asked inside it, and c1 left
C1_Witness ==
    /\ questions[<<>>].keys = <<"A", AutoPrefix \o "q", "c1">>
    /\ IsAsked(questions, <<"A">>) /\ IsAsked(questions, <<AutoPrefix \o "q">>)
    /\ IsAsked(questions, <<"c1", "A">>)
    /\ q_context = <<>>
    /\ GetItem(questions, <<"A">>) = Got(Bool(TRUE))
    /\ questions[<<"A">>].prior_answer = Str(Yes)

\* C2: asking an explicit name again in the context where it was asked
\* raises the duplicate-name KeyError, starts no presenter loop and leaves
\* every record as it was.
C2_Step ==
    \A p \in DOMAIN questions :
        (/\ Len(p) > 0
         /\ SubSeq(p, 1, Len(p) - 1) = q_context
         /\ IsAsked(questions, p)
         /\ AskCallOf(p[Len(p)]))
            => /\ frame' = NoCall
               /\ ret'.status = "raise" /\ ret'.exc = "KeyError"
               /\ questions' = questions

C2_DuplicateNameFails == [][C2_Step]_vars

\* the second ask of A at the root has just raised, after an unnamed ask and
\* a visit of c1 (with A asked in it) since the first
C2_Witness ==
    /\ AskRaised /\ ret.exc = "KeyError" /\ ret.args.name = <<"A">>
    /\ q_context = <<>>
    /\ questions[<<>>].keys = <<"A", AutoPrefix \o "q", "c1">>
    /\ IsAsked(questions, <<"A">>) /\ IsAsked(questions, <<"c1", "A">>)

\* C3: an ask with no name never raises, and it commits into a record that
\* no earlier ask has answered, leaving every other record as it was.
C3_NeverFails == (ret.op \in AskOps /\ ret.args.name = <<>>) => ret.status = "return"

C3_OwnRecord ==
    /\ (frame = NoCall /\ frame' # NoCall /\ frame'.autonamed)
          => /\ ~ IsAsked(questions, frame'.at)
             /\ \A p \in DOMAIN questions :
                   IsQuestion(questions, p) =>
                       (p \in DOMAIN questions' /\ questions'[p] = questions[p])
    /\ (Commits /\ frame.autonamed)
          => /\ ~ IsAsked(questions, frame.at)
             /\ \A p \in DOMAIN questions \ {frame.at} :
                   p \in DOMAIN questions' /\ questions'[p] = questions[p]

C3_UnnamedAsksIndependent == [] C3_NeverFails /\ [][C3_OwnRecord]_vars

\* "q" asked three times with no name, in one context, with three answers
C3_Witness ==
    /\ AskReturned /\ ret.autonamed /\ ret.raw = Str(Yes)
    /\ questions[<<>>].keys =
          <<AutoPrefix \o "q", AutoPrefix \o "q.1", AutoPrefix \o "q.2">>
    /\ questions[<<AutoPrefix \o "q">>].prior_answer = Str(A)
    /\ questions[<<AutoPrefix \o "q.1">>].prior_answer = Str(B)
    /\ questions[<<AutoPrefix \o "q.2">>].prior_answer = Str(Yes)
    /\ \A p \in DOMAIN questions : Len(p) = 1 => questions[p].asked

\* C4: contexts isolate names.  An explicit ask raises only when its name was
\* already asked in the very context it is made in; what it returns is what
\* the chain of subscripts along its own path yields; and no call changes
\* what the path of another asked question yields.
C4_NoCollision ==
    AskRaised =>
        /\ ret.exc = "KeyError"
        /\ IsAsked(questions, Append(q_context, ret.args.name[1]))

C4_OwnPath ==
    (AskReturned /\ ~ ret.autonamed) => GetItem(questions, ret.at) = Got(ret.value)

C4_Kept ==
    \A p \in DOMAIN questions :
        IsAsked(questions, p) => GetItem(questions', p) = GetItem(questions, p)

C4_ContextsIsolateNames == [] (C4_NoCollision /\ C4_OwnPath) /\ [][C4_Kept]_vars

\* A asked at the root, in c1 and in its sibling c2, each with its own answer
C4_Witness ==
    /\ GetItem(questions, <<"A">>) = Got(Str(A))
    /\ GetItem(questions, <<"c1", "A">>) = Got(Str(Yes))
    /\ GetItem(questions, <<"c2", "A">>) = Got(Bool(TRUE))
    /\ IsAsked(questions, <<"A">>) /\ IsAsked(questions, <<"c1", "A">>)
    /\ IsAsked(questions, <<"c2", "A">>)

\* the same, with c2 nested in c1: wiz['c1']['c2']['A']
C4_WitnessNested ==
    /\ GetItem(questions, <<"A">>) = Got(Str(A))
    /\ GetItem(questions, <<"c1", "A">>) = Got(Str(Yes))
    /\ GetItem(questions, <<"c1", "c2", "A">>) = Got(Bool(TRUE))

\* what the presenter yielded on this turn of the loop
StepInput == IF frame' = NoCall THEN ret'.input ELSE frame'.input

Blank(i) == i = None \/ \A k \in 1..Len(i.str) : i.str[k] \in {" ", "\t", "\n"}

YnProblem == "Problem with answer: Answer must be yes or no"

\* C8: on a turn of ask_yn where the presenter yields y or yes in any letter
\* case the call returns TRUE; n or no in any letter case, FALSE; any other
\* text that is not blank: the user is told the answer must be yes or no and
\* the loop goes on to another presenter call, nothing returned, raised or
\* stored.
C8_Turn ==
    (frame # NoCall /\ frame.op = "ask_yn" /\ StepInput # None) =>
        LET s == StepInput.str
        IN  /\ s \in YesSpellings =>
                 (frame' = NoCall /\ ret'.status = "return" /\ ret'.value = Bool(TRUE))
            /\ s \in NoSpellings =>
                 (frame' = NoCall /\ ret'.status = "return" /\ ret'.value = Bool(FALSE))
            /\ (s \notin YesSpellings \cup NoSpellings /\ ~ Blank(StepInput)) =>
                 /\ frame' # NoCall
                 /\ frame'.attempts = frame.attempts + 1
                 /\ frame'.told = YnProblem
                 /\ ret' = ret /\ questions' = questions

C9_Turn ==
    (/\ frame # NoCall /\ frame.op = "ask_yn"
     /\ frame.args.default \in {Bool(TRUE), Bool(FALSE)}
     /\ questions[frame.at].prior_answer = None
     /\ frame.attempts = 0
     /\ Blank(StepInput)) =>
        /\ frame' = NoCall
        /\ ret'.status = "return"
        /\ ret'.value = frame.args.default
        /\ ret'.attempts = 1

C10_ChoiceResolves ==
    (ret.op = "ask_choose" /\ ret.args.options = Colours /\ ret.args.presenter # <<>>) =>
        /\ ret.status # "raise"
        /\ ret.args.presenter[1] \in {<<"2">>, Green} =>
              (ret.status = "return" /\ ret.value = Str(Green))

\* the last call loaded the history file and returned
Loaded ==
    /\ ret.op \in {"load", "set_path"} /\ ret.status = "return"
    /\ disk.exists
    /\ ret.op = "set_path" =>
          \/ ret.args.load_if_exists
          \/ ret.args.prompt_if_exists /\ ret.value = Bool(TRUE)

\* every question node of document doc is a QuestionData of tree t whose
\* prior_answer is the saved answer
Populated(t, doc) ==
    \A p \in DOMAIN doc :
        doc[p].type = "question" =>
            (IsQuestion(t, p) /\ t[p].prior_answer = doc[p].answer)

\* the ask in progress is of an explicit name, at depth n, for a record that
\* was there before the call: one merged from the history
Reasks(n) ==
    /\ frame # NoCall /\ frame.op = "ask" /\ ~ frame.autonamed
    /\ Len(frame.at) = n /\ frame.found

\* C5 as stated: in a fresh engine that loaded a saved history, an explicitly
\* named root question answered with an empty response is committed with the
\* raw answer saved for its name, whatever default the caller gave.
C5_Stated_Turn ==
    (Reasks(1) /\ ops = 2 /\ Commits /\ Blank(StepInput))
        => ret'.raw = questions[frame.at].prior_answer

C5_SavedAnswerAlwaysWins == [][C5_Stated_Turn]_vars

\* C5 (amended): with a path set, what an ask returns with is what the file
\* holds for its record; a load gives every saved question its saved raw
\* answer as prior_answer; and an explicitly named root question merged from
\* the history with a non-empty saved answer returns that answer on an empty
\* response, first turn or later, whatever default the caller gave.
C5_Saved ==
    (AskReturned /\ path # <<>>) =>
        (disk.exists /\ ret.at \in DOMAIN disk.doc
         /\ disk.doc[ret.at] = [type |-> "question", answer |-> ret.raw])

C5_Loaded == Loaded => Populated(questions, disk.doc)

C5_Turn ==
    (Reasks(1) /\ Truthy(questions[frame.at].prior_answer) /\ Blank(StepInput))
        => /\ frame' = NoCall
           /\ ret'.status = "return"
           /\ ret'.raw = questions[frame.at].prior_answer
           /\ ret'.value = questions[frame.at].prior_answer

C5_RoundTrip == [] (C5_Saved /\ C5_Loaded) /\ [][C5_Turn]_vars

\* second run: the history holding A = "a" was loaded and ask(name="A",
\* default="d") returned "a" on an empty response
C5_Witness ==
    /\ runs = 2 /\ ops = 2
    /\ AskReturned /\ ret.at = <<"A">> /\ ret.args.default = Str(D)
    /\ ret.input = Str(<<>>) /\ ret.attempts = 1
    /\ ret.raw = Str(A) /\ ret.value = Str(A)

\* C6: set_path(path, load_if_exists=False, prompt_if_exists=True) on an
\* existing file, the prompt answered yes: every question of the document as
\* it was before the call is in the tree with its saved answer as
\* prior_answer.
C6_Turn ==
    (/\ frame # NoCall /\ frame.op = "set_path"
     /\ ~ frame.args.load_if_exists /\ frame.args.prompt_if_exists
     /\ disk.exists
     /\ Commits /\ ret'.status = "return" /\ ret'.value = Bool(TRUE))
        => Populated(questions', disk.doc)

C6_PromptedLoadKeepsHistory == [][C6_Turn]_vars

\* C7: in a fresh engine whose first call loaded a history holding context c
\* with an answered question in it, entering c succeeds; and a question
\* merged from the history into a context returns its saved answer on an
\* empty response.
C7_Turn ==
    /\ \A p \in DOMAIN questions :
          (/\ frame = NoCall /\ ops = 1 /\ Loaded /\ q_context = <<>>
           /\ Len(p) = 2 /\ IsQuestion(questions, p)
           /\ Truthy(questions[p].prior_answer)
           /\ ops' = 2 /\ ret'.op = "open" /\ ret'.args.name = p[1])
              => (ret'.status = "return" /\ q_context' = <<p[1]>>)
    /\ (Reasks(2) /\ Truthy(questions[frame.at].prior_answer) /\ Blank(StepInput))
          => (frame' = NoCall /\ ret'.status = "return"
              /\ ret'.raw = questions[frame.at].prior_answer)

C7_RerunInsideContexts == [][C7_Turn]_vars

\* this step is a call of _close_q_context
CloseCall == frame = NoCall /\ ret'.op = "close"

\* the cases in which closing must fail: an expected name that is not the top
\* of the stack, or an empty stack
CloseMustFail(nameOpt) ==
    \/ q_context = <<>>
    \/ nameOpt # <<>> /\ q_context[Len(q_context)] # nameOpt[1]

\* C11: _close_q_context raises the context-mismatch error (ValueError) and
\* leaves the stack as it was when the expected name differs from the top of
\* the stack or the stack is empty, with or without an expected name; in every
\* other case it pops exactly the top entry.
C11_Turn ==
    CloseCall =>
        IF CloseMustFail(ret'.args.name)
        THEN /\ ret'.status = "raise" /\ ret'.exc = "ValueError"
             /\ q_context' = q_context
        ELSE /\ ret'.status = "return"
             /\ q_context' = SubSeq(q_context, 1, Len(q_context) - 1)

C11_CloseMismatchOneError == [][C11_Turn]_vars

\* this step is a call of _open_q_context
OpenCall == frame = NoCall /\ ret'.op = "open"

\* C12: _open_q_context(name) raises the duplicate-name KeyError and leaves
\* the stack and the tree as they were when name is in the current context,
\* as a question or as a context, one that was left earlier included;
\* otherwise it puts a new empty QuestionContext under name in the current
\* context, changes nothing else, and pushes name on the stack.
C12_Turn ==
    OpenCall =>
        LET name == ret'.args.name
            new == Append(q_context, name)
        IN  IF new \in DOMAIN questions
            THEN /\ ret'.status = "raise" /\ ret'.exc = "KeyError"
                 /\ questions' = questions
                 /\ q_context' = q_context
            ELSE /\ ret'.status = "return"
                 /\ DOMAIN questions' = DOMAIN questions \cup {new}
                 /\ questions'[new] = [type |-> "context", keys |-> <<>>]
                 /\ \A p \in DOMAIN questions \ {q_context} :
                       questions'[p] = questions[p]
                 /\ questions'[q_context].keys = Append(questions[q_context].keys, name)
                 /\ q_context' = new

C12_OpenContext == [][C12_Turn]_vars

\* c1 was entered, left, and entering it again has just failed; A is an asked
\* question of the root
C12_Witness ==
    /\ ret.op = "open" /\ ret.status = "raise" /\ ret.args.name = "c1"
    /\ q_context = <<>>
    /\ questions[<<>>].keys = <<"A", "c1">>
    /\ IsAsked(questions, <<"A">>)

\* entering A, the name of a question of the root, has just failed
C12_WitnessQuestion ==
    /\ ret.op = "open" /\ ret.status = "raise" /\ ret.args.name = "A"
    /\ q_context = <<>> /\ IsQuestion(questions, <<"A">>)

\* c1 was entered twice, the second time inside itself
C12_WitnessNested ==
    /\ ret.op = "open" /\ ret.status = "return"
    /\ q_context = <<"c1", "c1">>

\* C13: with a path set, when an ask has returned the history file holds the
\* serialization of the whole tree — every context and every record's raw
\* answer, the one just committed included.
C13_SavedOnReturn ==
    (AskReturned /\ path # <<>>) =>
        /\ disk.exists
        /\ DOMAIN disk.doc = DOMAIN questions
        /\ \A p \in DOMAIN questions :
              IF questions[p].type = "context"
              THEN disk.doc[p] = [type |-> "context", keys |-> questions[p].keys]
              ELSE disk.doc[p] = [type |-> "question",
                                  answer |-> questions[p].prior_answer]

\* A was asked inside c1 with the path set: the file holds c1 and A = "a"
C13_Witness ==
    /\ AskReturned /\ path # <<>> /\ ret.at = <<"c1", "A">>
    /\ disk.exists
    /\ disk.doc[<<"c1">>] = [type |-> "context", keys |-> <<"A">>]
    /\ disk.doc[<<"c1", "A">>] = [type |-> "question", answer |-> Str(A)]

\* the names looked up at the root: the explicit name, the storage names of
\* the unnamed question, and a name never used
LookupNames == {"A", AutoPrefix \o "q", AutoPrefix \o "q.1", "Z"}

\* name was asked in this run by a call that gave it as name=
ExplicitlyAsked(name) == name = "A" /\ IsAsked(questions, <<"A">>)

\* C14: between calls, wiz[name] raises KeyError, and returns nothing, for
\* every name that was not explicitly asked in this run: an absent name and
\* the storage name of an auto-named question alike.
C14_UnaskedLookupFails ==
    Idle =>
        \A name \in LookupNames :
            ~ ExplicitlyAsked(name) =>
                GetItem(questions, <<name>>) = [status |-> "raise", exc |-> "KeyError"]

\* the text is a string of decimal digits
IsDecimal(s) == s # <<>> /\ \A k \in 1..Len(s) : s[k] \in {DigitChars[j] : j \in 1..10}

RECURSIVE DecimalValue(_)
DecimalValue(s) ==
    IF s = <<>> THEN 0
    ELSE 10 * DecimalValue(SubSeq(s, 1, Len(s) - 1))
         + (CHOOSE j \in 0..9 : DigitChars[j + 1] = s[Len(s)])

NotAnOptionProblem == "Problem with answer: Not an option"

\* C20: on a turn of an ask validated by OptionsValidators over an option
\* list with distinct display texts, for a typed text that is not blank: when
\* the trimmed text is the display text of an option the ask returns that
\* option's code; when it is no display text and is the decimal number i of
\* an option, the i-th option's code; for any other text the user is told it
\* is not an option and the presenter is called again.
C20_Turn ==
    (/\ frame # NoCall /\ frame.validators \in DOMAIN OptionLists
     /\ ~ Blank(StepInput)) =>
        LET options == OptionLists[frame.validators]
            s == Strip(StepInput.str)
            shown == {k \in 1..Len(options) : options[k].desc = s}
            numbered == {k \in 1..Len(options) : IsDecimal(s) /\ DecimalValue(s) = k}
        IN  IF shown # {}
            THEN /\ frame' = NoCall /\ ret'.status = "return"
                 /\ \E k \in shown : ret'.value = options[k].code
            ELSE IF numbered # {}
            THEN /\ frame' = NoCall /\ ret'.status = "return"
                 /\ \E k \in numbered : ret'.value = options[k].code
            ELSE /\ frame' # NoCall
                 /\ frame'.told = NotAnOptionProblem
                 /\ ret' = ret /\ questions' = questions

C20_OptionsValidator == [][C20_Turn]_vars

AnswerRequiredProblem == "Answer required"

\* this turn of the presenter loop is refused: the user is told why, the
\* presenter will be called again, and nothing is stored or returned
Refused(why) ==
    /\ frame' # NoCall
    /\ frame'.attempts = frame.attempts + 1
    /\ frame'.told = why
    /\ ret' = ret
    /\ questions' = questions

\* this turn of the presenter loop ends the ask with a returned value
Returns ==
    /\ frame' = NoCall
    /\ ret'.op = frame.op /\ ret'.status = "return"
    /\ ret'.attempts = frame.attempts + 1
    /\ questions'[frame.at].asked

\* C15: AnswerRequired and ValidationFailed (NotAValidOption included) are
\* never raised to the caller of ask.  Every turn of the presenter loop either
\* is refused or returns: an empty response with no default to a required
\* question is refused with "Answer required"; a text that is no option, with
\* "Not an option"; a text given to a question without validators returns it
\* at that turn.  While the ask is in progress its record stays unasked with
\* no answer, and with an acceptable input not withheld for ever the ask
\* returns.
C15_Turn ==
    frame # NoCall =>
        /\ \/ \E why \in {AnswerRequiredProblem, YnProblem, NotAnOptionProblem} :
                 Refused(why)
           \/ Returns
        /\ (Blank(StepInput) /\ ~ Truthy(frame.default) /\ frame.required)
              => Refused(AnswerRequiredProblem)
        /\ (/\ frame.validators = "colours" /\ ~ Blank(StepInput)
            /\ Strip(StepInput.str) \notin
                  {<<"R","e","d">>, <<"G","r","e","e","n">>, <<"B","l","u","e">>,
                   <<"1">>, <<"2">>, <<"3">>})
              => Refused(NotAnOptionProblem)
        /\ (frame.validators = "none" /\ ~ Blank(StepInput))
              => (Returns /\ ret'.value = StepInput)

C15_InProgress ==
    /\ (ret.op # "none" /\ ret.status = "raise") =>
          ret.exc \notin {"AnswerRequired", "ValidationFailed", "NotAValidOption"}
    /\ frame # NoCall =>
          /\ ~ questions[frame.at].asked
          /\ questions[frame.at].answer = None

C15_RetryLoop ==
    /\ [][C15_Turn]_vars
    /\ [] C15_InProgress
    /\ (frame # NoCall) ~> (frame = NoCall /\ AskReturned)

\* "Purple" was refused as not an option, and then "Green" was returned
C15_Witness ==
    /\ AskReturned /\ ret.attempts = 2
    /\ ret.told = NotAnOptionProblem
    /\ ret.input = Str(<<"G","r","e","e","n">>)
    /\ ret.value = Str(<<"G","r","e","e","n">>)

\* an empty response to a required question was refused, and then "x" returned
C15_WitnessRequired ==
    /\ AskReturned /\ ret.attempts = 2
    /\ ret.told = AnswerRequiredProblem /\ ret.args.required
    /\ ret.value = Str(<<"x">>)

IsContext(t, p) == p \in DOMAIN t /\ t[p].type = "context"

\* C16: ask with an explicit name that is the name of a child context of the
\* current context raises KeyError, the error of asking an asked name again,
\* starts no presenter loop and leaves the tree as it was.
C16_Turn ==
    \A name \in ClashNames :
        (IsContext(questions, Append(q_context, name)) /\ AskCallOf(name))
            => /\ frame' = NoCall
               /\ ret'.status = "raise" /\ ret'.exc = "KeyError"
               /\ questions' = questions

C16_AskContextName == [][C16_Turn]_vars

\* C17: within one run, a record that is asked stays the record of its name
\* through every later ask, context entry and exit, and history load: it
\* stays asked and keeps its validated answer.
C17_Turn ==
    runs' = runs =>
        \A p \in DOMAIN questions :
            IsAsked(questions, p) =>
                /\ IsAsked(questions', p)
                /\ questions'[p].answer = questions[p].answer

C17_AskedRecordsStay == [][C17_Turn]_vars

\* C18: every prefix of the stack of open contexts is the path of a
\* QuestionContext of the tree, so that _cur_context returns a context.
C18_StackResolves ==
    \A k \in 1..Len(q_context) : IsContext(questions, SubSeq(q_context, 1, k))

\* the storage name of the k-th unnamed ask of question text q
AutoName(q, k) ==
    IF k = 1 THEN AutoPrefix \o q ELSE AutoPrefix \o q \o "." \o ToString(k - 1)

\* C19: the k-th unnamed ask of "q" made by a Wizard instance at the root
\* does not fail and is stored under "__auto__.q" for k = 1 and under
\* "__auto__.q.(k-1)" for k > 1, whatever history was loaded; and when that
\* name holds a saved answer, that answer is the default of the ask.
C19_Turn ==
    (frame = NoCall /\ ops' = ops + 1) =>
        /\ frame' # NoCall
        /\ frame'.name = AutoName("q", ops')
        /\ frame'.at = <<AutoName("q", ops')>>
        /\ (IsQuestion(questions, frame'.at)
            /\ questions[frame'.at].prior_answer # None)
              => frame'.default = questions[frame'.at].prior_answer

C19_AutoNamesByCount == [][C19_Turn]_vars

\* the question node at path p holds a raw answer that came from the history
\* and was not asked by this Wizard instance
LoadedOnly(t, p) ==
    IsQuestion(t, p) /\ ~ t[p].asked /\ t[p].prior_answer # None

\* this step persists the tree: an ask returns, or save is called, with a
\* path to write to
Persists ==
    \/ Commits /\ path # <<>>
    \/ /\ frame = NoCall /\ ops' = ops + 1 /\ ret'.op = "save"
       /\ (path # <<>> \/ ret'.args.path # <<>>)

\* C21: a question node, at any depth, that holds a raw answer merged from the
\* history and was not asked in this run stays in the tree with that answer
\* until it is asked, and is in every document that an ask or a save then
\* writes, with the same raw answer.
C21_Turn ==
    \A p \in DOMAIN questions :
        (/\ LoadedOnly(questions, p)
         /\ runs' = runs
         /\ ~ (Commits /\ frame.at = p)) =>
            /\ LoadedOnly(questions', p)
            /\ questions'[p].prior_answer = questions[p].prior_answer
            /\ Persists =>
                  /\ disk'.exists /\ p \in DOMAIN disk'.doc
                  /\ disk'.doc[p] = [type |-> "question",
                                     answer |-> questions[p].prior_answer]

C21_SavingKeepsLoaded == [][C21_Turn]_vars

\* second run: the history was loaded with c1 and its question A = "a", A was
\* then asked at the root, and the file written by that ask holds both
C21_Witness ==
    /\ runs = 2 /\ AskReturned /\ path # <<>> /\ ret.at = <<"A">>
    /\ LoadedOnly(questions, <<"c1", "A">>)
    /\ questions[<<"c1", "A">>].prior_answer = Str(A)
    /\ disk.exists
    /\ disk.doc[<<"c1", "A">>] = [type |-> "question", answer |-> Str(A)]
    /\ disk.doc[<<"A">>] = [type |-> "question", answer |-> ret.raw]

====
